---- MODULE Spec2Model ----
(***************************************************************************)
(* RedditStatusCheckerBot, src/main.py: the OAuth token cache, the two     *)
(* search clients, the hourly bucketing and fetch_reports_series_24h.      *)
(*                                                                         *)
(* Time is the wall clock in epoch seconds.  The handlers are asyncio      *)
(* coroutines: they interleave only at an await of a network call, so one  *)
(* action is the code that runs from one await to the next.                *)
(*                                                                         *)
(*   Spec      one fetch_reports_series_24h call after another, whole      *)
(*   SpecConc  concurrent callers of get_reddit_token on the shared slot   *)
(*   SpecBucket  lines 222-230 of fetch_reports_series_24h on item lists   *)
(*   SpecMalformed  Spec, the searches also answering in another shape     *)
(*   SpecStatus  one status_cmd call after another, whole                  *)
(***************************************************************************)
EXTENDS Integers, Sequences, FiniteSets

\* ------------------------------------------------------------------ bounds
T0 == 1704208020          \* wall clock at start: 2024-01-02T15:07:00Z
TickStep == 1800          \* the clock advances in steps of this many seconds
MaxTicks == 2             \* ... at most this many times
MaxExchanges == 2         \* credential exchanges started in one behaviour
MaxSourceItems == 2       \* raw items the sources deliver to one call (Spec)
MaxItems == 3             \* length of the lists handed to the bucketer (SpecBucket)
NumCallers == 2           \* concurrent callers of get_reddit_token (SpecConc)

\* ------------------------------------------------------- program constants
Hour == 3600              \* replace(minute=0, second=0, microsecond=0)
WindowHours == 24         \* start = now_dt - timedelta(hours=24)
Margin == 60              \* now < exp - 60
DefaultExpiresIn == 3600  \* j.get("expires_in", 3600)
MaxPages == 6             \* for _ in range(6)

NoToken == 0              \* _token_cache["access_token"] is None
NoStamp == 0 - 1          \* an item without data.created_utc
BadStamp == 0 - 2         \* an item whose data.created_utc is not a number
NotDict == 0 - 3          \* a child that is not an object, or whose data is not
NoCursor == 0             \* data.after is None
Types == <<"link", "self", "comment">>

\* ----------------------------------------------------------------- helpers
\* dt.replace(minute=0, second=0, microsecond=0) of an epoch time
FloorHourKeep(t) == t
FloorHour(t) == t - (t % Hour)

\* if not (REDDIT_CLIENT_ID and REDDIT_CLIENT_SECRET): of get_reddit_token
CredsMissingNever(c) == FALSE
CredsMissing(c) == ~c

\* the reuse test of get_reddit_token
CacheValidHourMargin(cache, now) ==
    cache.access_token # NoToken /\ now < cache.exp - Hour
CacheValidNoMargin(cache, now) ==
    cache.access_token # NoToken /\ now < cache.exp
CacheValid(cache, now) ==
    cache.access_token # NoToken /\ now < cache.exp - Margin

\* the two stores that end get_reddit_token
StoreToken(cache, now, tok, expires_in) ==
    [access_token |-> tok, exp |-> now + expires_in]

\* the store of the token alone: float(expires_in) raised after it
StoreTokenOnly(cache, tok) == [cache EXCEPT !.access_token = tok]

\* what the identity endpoint can answer to the POST of get_reddit_token
\* lifetimes granted: 60 s, 61 s (either side of the margin) and an hour
ExpiresIns == {Margin, Margin + 1, DefaultExpiresIn}
ExchangeOutcomes ==
    {[kind |-> k, expires_in |-> DefaultExpiresIn] :
        k \in {"transport", "status", "nokey", "badexp", "nulltok"}}
    \cup {[kind |-> "ok", expires_in |-> e] : e \in ExpiresIns}

\* get_reddit_token from the answer of the POST to its return: the exception
\* it ends with ("none": it returns value) and the slot it leaves
TokenAnswerClears(cache, now, tok, resp) ==
    IF resp.kind \in {"transport", "status", "nokey"}
    THEN [cache |-> [access_token |-> NoToken, exp |-> 0],
          raised |-> "HTTPStatusError", value |-> NoToken]
    ELSE [cache |-> StoreToken(cache, now, tok, resp.expires_in),
          raised |-> "none", value |-> tok]
TokenAnswer(cache, now, tok, resp) ==
    CASE resp.kind = "transport" ->
           [cache |-> cache, raised |-> "TransportError", value |-> NoToken]
      [] resp.kind = "status" ->
           [cache |-> cache, raised |-> "HTTPStatusError", value |-> NoToken]
      [] resp.kind = "nokey" ->
           [cache |-> cache, raised |-> "KeyError", value |-> NoToken]
      [] resp.kind = "badexp" ->
           [cache |-> StoreTokenOnly(cache, tok), raised |-> "TypeError",
            value |-> NoToken]
      [] resp.kind = "nulltok" ->
           [cache |-> StoreToken(cache, now, NoToken, resp.expires_in),
            raised |-> "none", value |-> NoToken]
      [] OTHER ->
           [cache |-> StoreToken(cache, now, tok, resp.expires_in),
            raised |-> "none", value |-> tok]

\* ------------------------------------------------------------------- state
VARIABLES
    clock,          \* time.time() / _now_utc()
    creds,          \* REDDIT_CLIENT_ID and REDDIT_CLIENT_SECRET are both set
    token_cache,    \* _token_cache
    exchanges,      \* POSTs to the identity endpoint started so far
    \* concurrent callers of get_reddit_token (SpecConc)
    cpc,            \* "idle", "post" (awaiting the POST), "ret"
    cnow,           \* the local now of the call
    cexch,          \* which exchange the call started (0: none)
    cret,           \* how the call ended: [raised, value]
    \* the fetch_reports_series_24h call in progress (Spec)
    pc,             \* "idle", "post", "search", "public", "bucket", "done", "failed"
    tok_now,        \* get_reddit_token's now while it awaits the POST (else 0)
    token,          \* _oauth_search's token
    now_ts,         \* _oauth_search's now_ts
    tIdx,           \* index in Types of the type searched (kept after the search)
    page,           \* GETs sent for that type: 1 + completed iterations of range(6)
    after,          \* the cursor sent with the request in flight
    lastAns,        \* the answer to the previous GET for that type: [kind, after]
    acc,            \* _oauth_search's items
    items,          \* fetch_reports_series_24h's items
    now_dt,         \* fetch_reports_series_24h's now_dt
    series,         \* the returned series: <<hour_start, count>> tuples
    \* history of the call in progress
    oauthOutcome,   \* "pending", "nonempty", "empty", "raised"
    publicOutcome,  \* "none", "pending", "nonempty", "empty", "raised"
    publicCalls,    \* GETs sent to the public search
    tokenOutcome,   \* "none", "nocreds", "cached", "fetched", "null", "raised"
    dropped,        \* collected items lost when _oauth_search raised
    events,         \* failures the network produced
    \* the status_cmd handler in progress (SpecStatus)
    spc,            \* "idle", "status" (awaiting the status GET), "series", "sent"
    description,    \* status_cmd's description, as its words
    ok,             \* status_cmd's ok
    statusFetch,    \* how the status GET ended: "none", "ok", or the failure
    reply           \* what the handler sent: [kind, ok, description, reports]

sharedVars == <<clock, creds, token_cache, exchanges>>
callerVars == <<cpc, cnow, cexch, cret>>
reqVars == <<pc, tok_now, token, now_ts, tIdx, page, after, lastAns, acc, items, now_dt,
             series, oauthOutcome, publicOutcome, publicCalls, tokenOutcome,
             dropped, events>>
vars == <<clock, creds, token_cache, exchanges, cpc, cnow, cexch, cret,
          pc, tok_now, token, now_ts, tIdx, page, after, lastAns, acc, items, now_dt,
          series, oauthOutcome, publicOutcome, publicCalls, tokenOutcome,
          dropped, events, spc, description, ok, statusFetch, reply>>
cmdVars == <<spc, description, ok, statusFetch, reply>>

Callers == 1..NumCallers
NoAnswer == [kind |-> "none", after |-> NoCursor]
NoRet == [raised |-> "none", value |-> NoToken]

NoReply == [kind |-> "none", ok |-> TRUE, description |-> <<>>, reports |-> 0]

CmdInit ==
    /\ spc = "idle" /\ description = <<>> /\ ok = TRUE
    /\ statusFetch = "none" /\ reply = NoReply

ReqInit ==
    /\ pc = "idle" /\ tok_now = 0 /\ token = NoToken /\ now_ts = 0
    /\ tIdx = 0 /\ page = 0 /\ after = NoCursor /\ lastAns = NoAnswer
    /\ acc = <<>> /\ items = <<>> /\ now_dt = 0 /\ series = <<>>
    /\ oauthOutcome = "pending" /\ publicOutcome = "none" /\ publicCalls = 0
    /\ tokenOutcome = "none" /\ dropped = 0 /\ events = {}

Init ==
    /\ clock = T0
    /\ creds \in BOOLEAN
    /\ token_cache = [access_token |-> NoToken, exp |-> 0]
    /\ exchanges = 0
    /\ cpc = [c \in Callers |-> "idle"]
    /\ cnow = [c \in Callers |-> 0]
    /\ cexch = [c \in Callers |-> 0]
    /\ cret = [c \in Callers |-> NoRet]
    /\ ReqInit
    /\ CmdInit

\* the wall clock advances
Tick ==
    /\ clock < T0 + MaxTicks * TickStep
    /\ clock' = clock + TickStep
    /\ UNCHANGED <<creds, token_cache, exchanges>>
    /\ UNCHANGED callerVars
    /\ UNCHANGED reqVars
    /\ UNCHANGED cmdVars

\* ------------------------------------------- get_reddit_token, concurrently
\* entry of get_reddit_token up to its return or its await of the POST
CallerEnter(c) ==
    /\ cpc[c] = "idle"
    /\ IF CredsMissing(creds)
       THEN /\ cpc' = [cpc EXCEPT ![c] = "ret"]
            /\ cret' = [cret EXCEPT ![c] = NoRet]
            /\ UNCHANGED <<cnow, cexch, exchanges>>
       ELSE IF CacheValid(token_cache, clock)
       THEN /\ cpc' = [cpc EXCEPT ![c] = "ret"]
            /\ cnow' = [cnow EXCEPT ![c] = clock]
            /\ cret' = [cret EXCEPT ![c] =
                          [raised |-> "none", value |-> token_cache.access_token]]
            /\ UNCHANGED <<cexch, exchanges>>
       ELSE /\ exchanges < MaxExchanges
            /\ cpc' = [cpc EXCEPT ![c] = "post"]
            /\ cnow' = [cnow EXCEPT ![c] = clock]
            /\ exchanges' = exchanges + 1
            /\ cexch' = [cexch EXCEPT ![c] = exchanges + 1]
            /\ UNCHANGED cret
    /\ UNCHANGED <<clock, creds, token_cache>>
    /\ UNCHANGED reqVars
    /\ UNCHANGED cmdVars

\* the POST is answered: raise_for_status, r.json(), the two stores, return
CallerPost(c) ==
    /\ cpc[c] = "post"
    /\ \E resp \in ExchangeOutcomes :
         LET a == TokenAnswer(token_cache, cnow[c], cexch[c], resp) IN
         /\ token_cache' = a.cache
         /\ cret' = [cret EXCEPT ![c] = [raised |-> a.raised, value |-> a.value]]
    /\ cpc' = [cpc EXCEPT ![c] = "ret"]
    /\ UNCHANGED <<clock, creds, exchanges, cnow, cexch>>
    /\ UNCHANGED reqVars
    /\ UNCHANGED cmdVars

\* the caller is done with the result; it may call again
CallerDone(c) ==
    /\ cpc[c] = "ret"
    /\ cpc' = [cpc EXCEPT ![c] = "idle"]
    /\ cnow' = [cnow EXCEPT ![c] = 0]
    /\ cexch' = [cexch EXCEPT ![c] = 0]
    /\ cret' = [cret EXCEPT ![c] = NoRet]
    /\ UNCHANGED sharedVars
    /\ UNCHANGED reqVars
    /\ UNCHANGED cmdVars

NextConc ==
    \/ Tick
    \/ \E c \in Callers : CallerEnter(c)
    \/ \E c \in Callers : CallerPost(c)
    \/ \E c \in Callers : CallerDone(c)

SpecConc == Init /\ [][NextConc]_vars

\* ------------------------------------------------------------ the bucketer
\* dict.get(key, default) and dict[key] = value
Get(d, k, default) == IF k \in DOMAIN d THEN d[k] ELSE default
Put(d, k, v) == [x \in (DOMAIN d) \cup {k} |-> IF x = k THEN v ELSE d[x]]

\* one iteration of the loop of _bucket_by_hour
BucketStepOverwrite(buckets, it) ==
    IF it.created_utc = NoStamp
    THEN buckets
    ELSE Put(buckets, FloorHour(it.created_utc), 1)
BucketStep(buckets, it) ==
    IF it.created_utc = NoStamp
    THEN buckets
    ELSE LET t == FloorHour(it.created_utc) IN
         Put(buckets, t, Get(buckets, t, 0) + 1)

RECURSIVE BucketLoop(_, _, _)
BucketLoop(buckets, children, i) ==
    IF i > Len(children)
    THEN buckets
    ELSE BucketLoop(BucketStep(buckets, children[i]), children, i + 1)

\* _bucket_by_hour(children)
BucketByHour(children) == BucketLoop([x \in {} |-> 0], children, 1)

\* the while loop of fetch_reports_series_24h
RECURSIVE SeriesLoopExclusive(_, _, _, _)
SeriesLoopExclusive(series_, cur, nowdt, buckets) ==
    IF cur < nowdt
    THEN SeriesLoopExclusive(Append(series_, <<cur, Get(buckets, cur, 0)>>),
                             cur + Hour, nowdt, buckets)
    ELSE series_
RECURSIVE SeriesLoop(_, _, _, _)
SeriesLoop(series_, cur, nowdt, buckets) ==
    IF cur <= nowdt
    THEN SeriesLoop(Append(series_, <<cur, Get(buckets, cur, 0)>>),
                    cur + Hour, nowdt, buckets)
    ELSE series_

\* start = now_dt - timedelta(hours=24)
WindowStart(nowdt) == nowdt - WindowHours * Hour

\* buckets, now_dt, start and the loop that fills the series
BuildSeries(its, now) ==
    LET nowdt == FloorHour(now) IN
    SeriesLoop(<<>>, WindowStart(nowdt), nowdt, BucketByHour(its))

\* --------------------------------------------------------- the two sources
\* creation times of the items handed to the bucketer: 14:05, 14:50 and 15:02
\* of the day of T0, and one 24 hours before T0 (15:07 of the day before)
ItemStamps == {T0 - 3720, T0 - 1020, T0 - 300, T0 - WindowHours * Hour}
Items == {[created_utc |-> s] : s \in ItemStamps \cup {NoStamp}}

\* the items the two searches deliver: 15:02, 15:07 of the day before, undated
SourceStamps == {T0 - 300, T0 - WindowHours * Hour}
SourceItems == {[created_utc |-> s] : s \in SourceStamps \cup {NoStamp}}

\* the lists of at most n elements of S
RECURSIVE ListsOf(_, _)
ListsOf(S, n) ==
    IF n = 0
    THEN {<<>>}
    ELSE LET shorter == ListsOf(S, n - 1) IN
         shorter \cup {Append(l, it) : l \in {x \in shorter : Len(x) = n - 1},
                                        it \in S}

\* what the p-th GET of OAUTH_SEARCH_URL for one type can answer, the call
\* holding `have` items; the cursor of a page names its last item, so the
\* cursors of the pages of one listing differ
SearchOutcomes(have, p) ==
    {[kind |-> k, kids |-> <<>>, after |-> NoCursor] : k \in {"transport", "status"}}
    \cup {[kind |-> "ok", kids |-> l, after |-> a] :
            l \in ListsOf(SourceItems, MaxSourceItems - have),
            a \in {NoCursor, p}}

\* what the GET of PUBLIC_SEARCH_URL can answer
PublicOutcomes ==
    {[kind |-> k, kids |-> <<>>] : k \in {"transport", "status"}}
    \cup {[kind |-> "ok", kids |-> l] : l \in ListsOf(SourceItems, MaxSourceItems)}

\* 200 answers of another shape than the listing: a body that is not JSON
\* ("notjson"), "data": null ("nodata"), "children": null ("nullkids"), and a
\* listing that holds one malformed child
MalformedItems == {[created_utc |-> BadStamp], [created_utc |-> NotDict]}
MalformedSearchOutcomes(have, p) ==
    {[kind |-> k, kids |-> <<>>, after |-> NoCursor] : k \in {"notjson", "nodata"}}
    \cup {[kind |-> "nullkids", kids |-> <<>>, after |-> a] : a \in {NoCursor, p}}
    \cup {[kind |-> "ok", kids |-> <<m>>, after |-> a] :
            m \in (IF have < MaxSourceItems THEN MalformedItems ELSE {}),
            a \in {NoCursor, p}}
MalformedPublicOutcomes ==
    {[kind |-> k, kids |-> <<>>] : k \in {"notjson", "nodata", "nullkids"}}
    \cup {[kind |-> "ok", kids |-> <<m>>] : m \in MalformedItems}

\* r.json() or .get on None raises: ValueError, AttributeError
ParseRaises(kind) == kind \in {"notjson", "nodata"}

\* _bucket_by_hour raises on children: it.get of a child that is no object,
\* d.get of a data that is no object, fromtimestamp of a non-number
BucketRaises(children) ==
    \E k \in 1..Len(children) : children[k].created_utc \in {BadStamp, NotDict}

\* ------------------------------------------------ fetch_reports_series_24h
\* except Exception: around the two searches
OAuthExceptHttpOnly(exc) == exc \in {"TransportError", "HTTPStatusError"}
OAuthExceptCatches(exc) == TRUE
PublicExceptNone(exc) == FALSE
PublicExceptCatches(exc) == TRUE

\* if not items:
NeedFallbackAlways(its) == TRUE
NeedFallbackNever(its) == FALSE
NeedFallback(its) == Len(its) = 0

\* if r.status_code != 200: of the two searches
SearchRejected(kind) == kind = "status"
PublicRejected(kind) == kind = "status"

\* buckets = ... to return series; line 222 is in no try
Finish(its) ==
    IF BucketRaises(its)
    THEN /\ pc' = "failed"
         /\ items' = its
         /\ UNCHANGED <<now_dt, series>>
    ELSE /\ pc' = "done"
         /\ items' = its
         /\ now_dt' = FloorHour(clock)
         /\ series' = BuildSeries(its, clock)

\* _oauth_search has returned its ("none") or raised exc: the except clause,
\* the test of items, then the GET of the public search or the series
OAuthEnds(exc, its) ==
    /\ acc' = <<>> /\ page' = 0 /\ after' = NoCursor /\ lastAns' = NoAnswer
    /\ dropped' = IF exc # "none" THEN Len(its) ELSE 0
    /\ IF exc # "none" /\ ~OAuthExceptCatches(exc)
       THEN /\ pc' = "failed"
            /\ oauthOutcome' = "raised"
            /\ UNCHANGED <<items, now_dt, series, publicOutcome, publicCalls>>
       ELSE LET got == IF exc # "none" THEN <<>> ELSE its IN
            /\ oauthOutcome' = IF exc # "none" THEN "raised"
                               ELSE IF Len(its) = 0 THEN "empty" ELSE "nonempty"
            /\ IF NeedFallback(got)
               THEN /\ pc' = "public"
                    /\ items' = got
                    /\ publicCalls' = publicCalls + 1
                    /\ publicOutcome' = "pending"
                    /\ UNCHANGED <<now_dt, series>>
               ELSE /\ Finish(got)
                    /\ UNCHANGED <<publicOutcome, publicCalls>>

\* if not token: of _oauth_search
HasToken(tok) == tok # NoToken

\* for _ in range(6): p GETs were sent for the type, another may follow
MorePagesUnbounded(p) == TRUE
MorePages(p) == p < MaxPages

\* _oauth_search from the token to the first GET
BeginSearch(tok) ==
    /\ token' = tok
    /\ now_ts' = FloorHour(clock)
    /\ acc' = <<>>
    /\ tIdx' = 1
    /\ page' = 1
    /\ after' = NoCursor
    /\ lastAns' = NoAnswer
    /\ pc' = "search"
    /\ UNCHANGED <<items, now_dt, series, oauthOutcome, publicOutcome, publicCalls,
                   dropped>>

\* the inner loop is left: the next type's first GET, or return items
NextType(a) ==
    IF tIdx < Len(Types)
    THEN /\ acc' = a
         /\ tIdx' = tIdx + 1
         /\ page' = 1
         /\ after' = NoCursor
         /\ lastAns' = NoAnswer
         /\ UNCHANGED <<pc, items, now_dt, series, oauthOutcome, publicOutcome,
                        publicCalls, dropped>>
    ELSE /\ UNCHANGED tIdx
         /\ OAuthEnds("none", a)

\* a request arrives: fetch_reports_series_24h to its first await
FetchStart ==
    /\ pc = "idle"
    /\ IF CredsMissing(creds)
       THEN /\ tokenOutcome' = "nocreds"
            /\ OAuthEnds("none", <<>>)
            /\ UNCHANGED <<tok_now, token, now_ts, tIdx, exchanges>>
       ELSE IF CacheValid(token_cache, clock)
       THEN /\ tokenOutcome' = "cached"
            /\ BeginSearch(token_cache.access_token)
            /\ UNCHANGED <<tok_now, exchanges>>
       ELSE /\ exchanges < MaxExchanges
            /\ exchanges' = exchanges + 1
            /\ tok_now' = clock
            /\ pc' = "post"
            /\ UNCHANGED <<token, now_ts, tIdx, page, after, lastAns, acc, dropped, items,
                           now_dt, series, oauthOutcome, publicOutcome,
                           publicCalls, tokenOutcome>>
    /\ UNCHANGED <<clock, creds, token_cache, events>>
    /\ UNCHANGED callerVars

\* graph_cmd: the series alone is asked for
ReqStart == FetchStart /\ UNCHANGED cmdVars

\* the POST of get_reddit_token is answered
ReqPost ==
    /\ pc = "post"
    /\ \E resp \in ExchangeOutcomes :
         LET a == TokenAnswer(token_cache, tok_now, exchanges, resp) IN
         /\ token_cache' = a.cache
         /\ IF a.raised # "none"
            THEN /\ tokenOutcome' = "raised"
                 /\ events' = events \cup {"cred_" \o resp.kind}
                 /\ OAuthEnds(a.raised, <<>>)
                 /\ UNCHANGED <<token, now_ts, tIdx>>
            ELSE IF ~HasToken(a.value)
            THEN /\ tokenOutcome' = "null"
                 /\ OAuthEnds("none", <<>>)
                 /\ UNCHANGED <<token, now_ts, tIdx, events>>
            ELSE /\ tokenOutcome' = "fetched"
                 /\ BeginSearch(a.value)
                 /\ UNCHANGED events
    /\ tok_now' = 0
    /\ UNCHANGED <<clock, creds, exchanges>>
    /\ UNCHANGED callerVars
    /\ UNCHANGED cmdVars

\* a GET of _oauth_search is answered by one of outs
ReqSearchPageOn(outs) ==
    /\ pc = "search"
    /\ \E resp \in outs :
         IF resp.kind = "transport"
         THEN /\ events' = events \cup {"search_transport"}
              /\ OAuthEnds("TransportError", acc)
              /\ UNCHANGED tIdx
         ELSE IF ParseRaises(resp.kind)
         THEN /\ events' = events \cup {"search_malformed"}
              /\ OAuthEnds("AttributeError", acc)
              /\ UNCHANGED tIdx
         ELSE IF SearchRejected(resp.kind)
         THEN /\ events' = events \cup {"search_status"}
              /\ NextType(acc)
         ELSE /\ UNCHANGED events
              /\ IF resp.after # NoCursor /\ MorePages(page)
                 THEN /\ acc' = acc \o resp.kids
                      /\ after' = resp.after
                      /\ lastAns' = [kind |-> resp.kind, after |-> resp.after]
                      /\ page' = page + 1
                      /\ UNCHANGED <<tIdx, pc, items, now_dt, series, oauthOutcome,
                                     publicOutcome, publicCalls, dropped>>
                 ELSE NextType(acc \o resp.kids)
    /\ UNCHANGED <<clock, creds, token_cache, exchanges, tok_now, token, now_ts,
                   tokenOutcome>>
    /\ UNCHANGED callerVars
    /\ UNCHANGED cmdVars

ReqSearchPage == ReqSearchPageOn(SearchOutcomes(Len(acc), page))

\* the GET of _fetch_public_search_last_24h is answered by one of outs
ReqPublicOn(outs) ==
    /\ pc = "public"
    /\ \E resp \in outs :
         IF resp.kind = "transport"
         THEN /\ events' = events \cup {"public_transport"}
              /\ publicOutcome' = "raised"
              /\ IF PublicExceptCatches("TransportError")
                 THEN Finish(<<>>)
                 ELSE pc' = "failed" /\ UNCHANGED <<items, now_dt, series>>
         ELSE IF ParseRaises(resp.kind)
         THEN /\ events' = events \cup {"public_malformed"}
              /\ publicOutcome' = "raised"
              /\ IF PublicExceptCatches("AttributeError")
                 THEN Finish(<<>>)
                 ELSE pc' = "failed" /\ UNCHANGED <<items, now_dt, series>>
         ELSE IF resp.kind = "nullkids"
         THEN \* items = None: for it in children raises at line 135
              /\ events' = events \cup {"public_malformed"}
              /\ publicOutcome' = "null"
              /\ pc' = "failed"
              /\ UNCHANGED <<items, now_dt, series>>
         ELSE IF PublicRejected(resp.kind)
         THEN /\ events' = events \cup {"public_status"}
              /\ publicOutcome' = "empty"
              /\ Finish(<<>>)
         ELSE /\ UNCHANGED events
              /\ publicOutcome' = IF Len(resp.kids) = 0 THEN "empty" ELSE "nonempty"
              /\ Finish(resp.kids)
    /\ UNCHANGED <<clock, creds, token_cache, exchanges, tok_now, token, now_ts,
                   tIdx, page, after, lastAns, acc, oauthOutcome, publicCalls,
                   tokenOutcome,
                   dropped>>
    /\ UNCHANGED callerVars
    /\ UNCHANGED cmdVars

ReqPublic == ReqPublicOn(PublicOutcomes)

\* the series is handed to the handler; the next request may arrive
FetchReset ==
    /\ pc \in {"done", "failed"}
    /\ pc' = "idle" /\ tok_now' = 0 /\ token' = NoToken /\ now_ts' = 0
    /\ tIdx' = 0 /\ page' = 0 /\ after' = NoCursor /\ lastAns' = NoAnswer
    /\ acc' = <<>> /\ items' = <<>> /\ now_dt' = 0 /\ series' = <<>>
    /\ oauthOutcome' = "pending" /\ publicOutcome' = "none" /\ publicCalls' = 0
    /\ tokenOutcome' = "none" /\ dropped' = 0 /\ events' = {}
    /\ UNCHANGED sharedVars
    /\ UNCHANGED callerVars

\* graph_cmd is done with the series
ReqReset == FetchReset /\ UNCHANGED cmdVars

Next ==
    \/ Tick
    \/ ReqStart
    \/ ReqPost
    \/ ReqSearchPage
    \/ ReqPublic
    \/ ReqReset

Spec == Init /\ [][Next]_vars

\* ------------------------------------- the same calls, the schema drifting
\* the searches may also answer 200 with a body of another shape
ReqSearchPageAny ==
    ReqSearchPageOn(SearchOutcomes(Len(acc), page)
                    \cup MalformedSearchOutcomes(Len(acc), page))
ReqPublicAny == ReqPublicOn(PublicOutcomes \cup MalformedPublicOutcomes)

NextMalformed ==
    \/ Tick
    \/ ReqStart
    \/ ReqPost
    \/ ReqSearchPageAny
    \/ ReqPublicAny
    \/ ReqReset

SpecMalformed == Init /\ [][NextMalformed]_vars

\* -------------------------------------------------------------- status_cmd
\* descriptions the status page serves, as their words
Descriptions ==
    {<<"All", "Systems", "Operational">>,
     <<"Partially", "Degraded", "Service">>,
     <<"Major", "Outage">>}

\* what the GET of fetch_status_summary can answer: a transport error, a
\* non-success status, a document without status.description, a description
\* that is null, a description
StatusOutcomes ==
    {[kind |-> k, description |-> <<>>] :
        k \in {"transport", "status", "nokey", "nulldesc"}}
    \cup {[kind |-> "ok", description |-> d] : d \in Descriptions}

\* "Operational" in description
Contains(d, w) == \E i \in 1..Len(d) : d[i] = w

\* except Exception: ... ok = True
FallbackOkFalse == FALSE
FallbackOk == TRUE

\* the try of status_cmd on the answer resp
StatusAnswer(resp) ==
    IF resp.kind # "ok"
    THEN [description |-> <<"Unknown">>, ok |-> FallbackOk]
    ELSE [description |-> resp.description,
          ok |-> Contains(resp.description, "Operational")]

\* /status arrives: status_cmd to the await of the status GET
CmdStart ==
    /\ spc = "idle" /\ pc = "idle"
    /\ spc' = "status"
    /\ UNCHANGED <<description, ok, statusFetch, reply>>
    /\ UNCHANGED sharedVars
    /\ UNCHANGED callerVars
    /\ UNCHANGED reqVars

\* the status GET is answered: the try, then fetch_reports_series_24h to its
\* first await
CmdStatus ==
    /\ spc = "status"
    /\ \E resp \in StatusOutcomes :
         LET a == StatusAnswer(resp) IN
         /\ description' = a.description
         /\ ok' = a.ok
         /\ statusFetch' = resp.kind
    /\ spc' = "series"
    /\ UNCHANGED reply
    /\ FetchStart

\* fetch_reports_series_24h has returned: plot_reports, the caption and the
\* await of answer_photo (answer, when there is nothing to plot)
CmdReply ==
    /\ spc = "series" /\ pc = "done"
    /\ reply' = IF Len(series) = 0
                THEN [NoReply EXCEPT !.kind = "no_data"]
                ELSE [kind |-> "photo", ok |-> ok, description |-> description,
                      reports |-> series[Len(series)][2]]
    /\ spc' = "sent"
    /\ UNCHANGED <<description, ok, statusFetch>>
    /\ UNCHANGED sharedVars
    /\ UNCHANGED callerVars
    /\ UNCHANGED reqVars

\* the reply is delivered and the handler returns
CmdDone ==
    /\ spc = "sent"
    /\ spc' = "idle" /\ description' = <<>> /\ ok' = TRUE
    /\ statusFetch' = "none" /\ reply' = NoReply
    /\ FetchReset

\* the wall clock stands still here: status_cmd reads it for the caption's
\* date alone, and the calls it makes are checked under Tick in Spec
NextStatus ==
    \/ CmdStart
    \/ CmdStatus
    \/ ReqPost
    \/ ReqSearchPage
    \/ ReqPublic
    \/ CmdReply
    \/ CmdDone

SpecStatus == Init /\ [][NextStatus]_vars

\* ------------------------------------------- the bucketer on its own inputs
\* items holds what the searches left at line 222, the clock any modelled time
InitBucket ==
    /\ clock \in {T0 + k * TickStep : k \in 0..MaxTicks}
    /\ creds = TRUE
    /\ token_cache = [access_token |-> NoToken, exp |-> 0]
    /\ exchanges = 0
    /\ cpc = [c \in Callers |-> "idle"]
    /\ cnow = [c \in Callers |-> 0]
    /\ cexch = [c \in Callers |-> 0]
    /\ cret = [c \in Callers |-> NoRet]
    /\ pc = "bucket" /\ tok_now = 0 /\ token = NoToken /\ now_ts = 0
    /\ tIdx = 0 /\ page = 0 /\ after = NoCursor /\ lastAns = NoAnswer
    /\ acc = <<>> /\ items \in ListsOf(Items, MaxItems) /\ now_dt = 0 /\ series = <<>>
    /\ oauthOutcome = "pending" /\ publicOutcome = "none" /\ publicCalls = 0
    /\ tokenOutcome = "none" /\ dropped = 0 /\ events = {}
    /\ CmdInit

\* lines 222-230
Bucketize ==
    /\ pc = "bucket"
    /\ Finish(items)
    /\ UNCHANGED sharedVars
    /\ UNCHANGED callerVars
    /\ UNCHANGED <<tok_now, token, now_ts, tIdx, page, after, lastAns, acc, oauthOutcome,
                   publicOutcome, publicCalls, tokenOutcome, dropped, events>>
    /\ UNCHANGED cmdVars

NextBucket == Bucketize

SpecBucket == InitBucket /\ [][NextBucket]_vars

\* ================================================================== claims
\* n items of its have a creation time within the hour that starts at h
CountIn(its, h) ==
    Cardinality({k \in 1..Len(its) :
                   /\ its[k].created_utc # NoStamp
                   /\ h <= its[k].created_utc
                   /\ its[k].created_utc < h + 3600})

\* ser is the series of the window that ends at the hour containing now
WellFormed(ser, now) ==
    /\ Len(ser) = 25
    /\ \A i \in 1..Len(ser) : ser[i][1] % 3600 = 0 /\ ser[i][2] >= 0
    /\ \A i \in 1..(Len(ser) - 1) : ser[i + 1][1] - ser[i][1] = 3600
    /\ ser[Len(ser)][1] <= now /\ now < ser[Len(ser)][1] + 3600
    /\ ser[1][1] = ser[Len(ser)][1] - 24 * 3600

\* C1: whatever the sources returned and whatever the wall clock shows when
\* fetch_reports_series_24h returns, the series has exactly 25 buckets in
\* ascending order on exact hour boundaries, one hour apart, the last the hour
\* containing now and the first 24 hours before it; counts are >= 0 and an
\* hour without items is present with count 0.
C1_SeriesShape ==
    [][(pc # "done" /\ pc' = "done") =>
         /\ WellFormed(series', clock')
         /\ \A i \in 1..Len(series') :
              CountIn(items', series'[i][1]) = 0 => series'[i][2] = 0]_vars

C1_Witness ==
    /\ pc = "done"
    /\ Len(series) = 25
    /\ \E i \in 1..Len(series) : series[i][2] > 0
    /\ \E i \in 1..Len(series) : series[i][2] = 0
    /\ series[Len(series)][1] > T0

\* C2: in a run in which the authenticated search returned a non-empty list,
\* the public search is never requested.
C2_FallbackOrdering ==
    oauthOutcome = "nonempty" => publicCalls = 0 /\ publicOutcome = "none"

C2_Witness ==
    pc = "done" /\ oauthOutcome = "nonempty" /\ publicCalls = 0 /\ Len(items) > 0

\* C3: in a run in which the authenticated search returned an empty list or
\* raised, the public search is requested exactly once, and no public request
\* is sent while the authenticated attempt is still in progress.
C3_FallbackActivation ==
    /\ oauthOutcome \in {"empty", "raised"} => publicCalls = 1
    /\ publicCalls > 0 =>
         oauthOutcome \in {"empty", "raised"} /\ pc \notin {"idle", "post", "search"}
    /\ pc = "public" <=> publicOutcome = "pending"

C3_Witness ==
    /\ pc = "done" /\ oauthOutcome = "raised" /\ publicCalls = 1
    /\ publicOutcome = "nonempty"

\* C4: whatever the two sources do (failed credential exchange, transport
\* error, non-200 answer, empty result), fetch_reports_series_24h never ends
\* with an error, every answer lets it go on, and it returns a 25-point series;
\* when both sources failed or were empty every count is 0.
C4_FailuresAbsorbed ==
    /\ pc # "failed"
    /\ pc = "post" => ENABLED ReqPost
    /\ pc = "search" => ENABLED ReqSearchPage
    /\ pc = "public" => ENABLED ReqPublic
    /\ pc = "done" => Len(series) = 25
    /\ (/\ pc = "done"
        /\ oauthOutcome \in {"empty", "raised"}
        /\ publicOutcome \in {"empty", "raised"})
       => \A i \in 1..Len(series) : series[i][2] = 0

C4_Witness ==
    /\ pc = "done"
    /\ "cred_nokey" \in events
    /\ "public_transport" \in events
    /\ Len(series) = 25
    /\ \A i \in 1..Len(series) : series[i][2] = 0

\* C5: accesses to the token slot are mutually exclusive: at most one
\* get_reddit_token call is between its read of the slot and its write of the
\* refreshed pair, so no two credential exchanges are in flight together.
C5_MutualExclusion ==
    Cardinality({c \in Callers : cpc[c] = "post"}) <= 1

\* C6: with credentials configured, a get_reddit_token call that finds a
\* cached token and now < exp - 60 returns that token at once, starts no
\* exchange and leaves the slot as it is; so a second call within the validity
\* window of the token the first call fetched adds no exchange.
C6_CredentialReuse ==
    [][\A c \in Callers :
         (/\ cpc[c] = "idle" /\ cpc'[c] # "idle"
          /\ creds
          /\ token_cache.access_token # NoToken
          /\ clock < token_cache.exp - 60)
         => /\ cpc'[c] = "ret"
            /\ cret'[c] = [raised |-> "none", value |-> token_cache.access_token]
            /\ cexch'[c] = 0
            /\ token_cache' = token_cache
            /\ exchanges' = exchanges]_vars

C6_Witness ==
    \E c1, c2 \in Callers :
      /\ c1 # c2
      /\ exchanges = 1
      /\ cpc[c1] = "ret" /\ cexch[c1] = 1 /\ cret[c1].value = 1
      /\ cpc[c2] = "ret" /\ cexch[c2] = 0 /\ cret[c2].value = 1
      /\ clock > cnow[c1]

\* the hour that contains the wall clock
ClockHour == clock - (clock % 3600)

\* C7: for every item list and every hour h of the window
\* [floor(now,1h) - 24h, floor(now,1h)], the count of bucket h is the number of
\* items whose creation time lies in the hour h; items without a creation time
\* count nowhere.
C7_BucketCounts ==
    pc = "done" =>
      /\ Len(series) = 25
      /\ \A j \in 0..24 :
           LET h == ClockHour - j * 3600 IN
           series[25 - j] = <<h, CountIn(items, h)>>

\* 14:05, 14:50 and 15:02 at 15:07: bucket 14:00 is 2, bucket 15:00 is 1
C7_Witness ==
    /\ pc = "done"
    /\ clock = T0
    /\ items = <<[created_utc |-> T0 - 3720], [created_utc |-> T0 - 1020],
                 [created_utc |-> T0 - 300]>>
    /\ series[24] = <<ClockHour - 3600, 2>>
    /\ series[25] = <<ClockHour, 1>>
    /\ \A i \in 1..23 : series[i][2] = 0

RECURSIVE SumCounts(_, _)
SumCounts(ser, i) == IF i = 0 THEN 0 ELSE ser[i][2] + SumCounts(ser, i - 1)

\* the items of its that have a creation time
Stamped(its) == {k \in 1..Len(its) : its[k].created_utc # NoStamp}

\* C8 as stated: the counts of the series sum to the number of input items
\* that have a creation time.
C8_Conservation ==
    pc = "done" => SumCounts(series, Len(series)) = Cardinality(Stamped(items))

\* C8 amended: the counts of the series sum to the number of input items whose
\* creation time lies in the window of the series, from floor(now,1h) - 24h up
\* to the end of the hour floor(now,1h).
C8_ConservationInWindow ==
    pc = "done" =>
      SumCounts(series, Len(series)) =
        Cardinality({k \in Stamped(items) :
                       /\ ClockHour - 24 * 3600 <= items[k].created_utc
                       /\ items[k].created_utc < ClockHour + 3600})

C8_Witness ==
    /\ pc = "done"
    /\ Len(items) = 3
    /\ Cardinality(Stamped(items)) = 2
    /\ SumCounts(series, Len(series)) = 1

\* the failures that end a client with an exception
CredFailures == {"cred_transport", "cred_status", "cred_nokey", "cred_badexp"}

C10_PerTypeIndependence ==
    (tokenOutcome \in {"cached", "fetched"} /\ oauthOutcome # "pending")
    => tIdx = Len(Types) /\ dropped = 0

\* progress of the two loops of _oauth_search: types done, GETs of this type
SearchRank == (tIdx - 1) * 6 + page

\* C11: while _oauth_search runs, the type it searches has had at least 1 and
\* at most 6 GETs, whatever cursors the source returns; a GET after the first
\* of a type is only sent after a 200 answer that held a cursor, and carries
\* that cursor; a search that returns has sent a GET for each of the three
\* types; every answered GET ends the search or moves it on to a later page or
\* type, so it ends within 18 GETs
C11_PaginationBound ==
    /\ [](pc = "search" =>
            /\ tIdx \in 1..3
            /\ page \in 1..6
            /\ page = 1 => after = NoCursor /\ lastAns.kind = "none"
            /\ page > 1 => /\ lastAns.kind = "ok"
                           /\ lastAns.after # NoCursor
                           /\ after = lastAns.after)
    /\ []((tokenOutcome \in {"cached", "fetched"}
           /\ oauthOutcome \in {"empty", "nonempty"}) => tIdx = 3)
    /\ [][pc = "search" =>
            \/ pc' # "search"
            \/ SearchRank' > SearchRank /\ SearchRank' <= 18
            \/ UNCHANGED <<tIdx, page, after, lastAns, acc>>]_vars
\* the source returned a cursor with every page: the sixth GET of the last type
C11_Witness ==
    pc = "search" /\ tIdx = 3 /\ page = 6 /\ after = 5 /\ lastAns.after = 5

\* C12: without the application credentials get_reddit_token returns None
\* with no POST to the identity endpoint and no change of the slot,
\* _oauth_search returns the empty list without a single search GET, and
\* fetch_reports_series_24h goes on to the public search
C12_NoCredentials ==
    ~creds =>
        /\ exchanges = 0
        /\ token_cache = [access_token |-> NoToken, exp |-> 0]
        /\ pc \notin {"post", "search", "failed"}
        /\ tIdx = 0 /\ page = 0 /\ token = NoToken
        /\ pc # "idle" => /\ tokenOutcome = "nocreds"
                          /\ oauthOutcome = "empty"
                          /\ publicCalls = 1
                          /\ publicOutcome # "none"
\* the public search is awaited by a call that had no credentials
C12_Witness ==
    ~creds /\ pc = "public" /\ tokenOutcome = "nocreds" /\ publicCalls = 1

\* C13: a 200 answer of another shape than the listing (data or children
\* missing or null, a child that is no object, a creation time that is no
\* number) is treated as a rejected answer: fetch_reports_series_24h does not
\* fail on it and still returns a series of 25 points
C13_MalformedAbsorbed ==
    /\ pc # "failed"
    /\ pc = "done" => Len(series) = 25 /\ ~BucketRaises(items)

\* caller c enters get_reddit_token in this step, a token being cached
EntersWithToken(c) ==
    /\ cpc[c] = "idle" /\ cpc'[c] # "idle"
    /\ creds
    /\ token_cache.access_token # NoToken

\* C16 as stated: a call made 61 or more seconds before the expiry of the
\* cached token starts a refresh exchange
C16_RefreshBeforeExpiry ==
    [][\A c \in Callers :
         (EntersWithToken(c) /\ clock <= token_cache.exp - 61) =>
             (cpc'[c] = "post" /\ exchanges' = exchanges + 1)]_vars

\* C16 amended: a call made 60 or fewer seconds before the expiry of the
\* cached token, or after it, starts exactly one exchange and, when the
\* exchange succeeds, stores the new token with the expiry that exchange
\* granted; a call made 61 or more seconds before the expiry returns the
\* cached token with no exchange
C16_RefreshNearExpiry ==
    [][\A c \in Callers :
         /\ (EntersWithToken(c) /\ clock >= token_cache.exp - 60) =>
                /\ cpc'[c] = "post"
                /\ exchanges' = exchanges + 1
                /\ token_cache' = token_cache
         /\ (EntersWithToken(c) /\ clock <= token_cache.exp - 61) =>
                /\ cpc'[c] = "ret"
                /\ exchanges' = exchanges
                /\ token_cache' = token_cache
                /\ cret'[c] = [raised |-> "none",
                               value |-> token_cache.access_token]
         /\ (cpc[c] = "post" /\ cpc'[c] = "ret") =>
                /\ exchanges' = exchanges
                /\ (cret'[c].raised = "none" /\ cret'[c].value # NoToken) =>
                       /\ token_cache'.access_token = cret'[c].value
                       /\ cret'[c].value = cexch[c]
                       /\ \E e \in {60, 61, 3600} :
                            token_cache'.exp = cnow[c] + e]_vars
\* a call made exactly 60 seconds before the expiry of the cached token
\* awaits its exchange, the second of the run
C16_Witness ==
    \E c \in Callers :
        /\ cpc[c] = "post" /\ cexch[c] = 2
        /\ token_cache.access_token = 1
        /\ cnow[c] = token_cache.exp - 60

\* C17: the window sent to the authenticated search, start_ts..now_ts, and the
\* window of the series the same call returns are the same 24 hours ending at
\* one floored hour, also when the wall clock passes an hour boundary while
\* the network calls are awaited
C17_WindowConsistency ==
    (pc = "done" /\ tokenOutcome \in {"cached", "fetched"}) =>
        /\ series[Len(series)][1] = now_ts
        /\ series[1][1] = now_ts - 24 * 3600
        /\ now_dt = now_ts

\* C18: the slot starts as the empty pair and every step that changes it
\* (callers see the slot only between steps) leaves the pair one exchange
\* wrote: the token of the exchange answered in that step together with the
\* expiry computed from that call's now and that answer's lifetime, never the
\* token of one exchange with the expiry of another
C18_ConsistentPair ==
    [][token_cache' # token_cache =>
         \E c \in Callers :
             /\ cpc[c] = "post" /\ cpc'[c] = "ret"
             /\ token_cache'.access_token \in {cexch[c], NoToken}
             /\ \E e \in {60, 61, 3600} : token_cache'.exp = cnow[c] + e]_vars

\* the exchange answered in this step failed with a transport error, a
\* non-success status or an answer without access_token
ExchangeFailsHere ==
    /\ pc = "post" /\ pc' # "post"
    /\ tokenOutcome' = "raised"
    /\ events' \cap {"cred_transport", "cred_status", "cred_nokey"} # {}

\* C19: a credential exchange that fails with a transport error, a non-success
\* status or an answer without access_token leaves the slot as it was, the
\* pair cached before included; the slot is then still not reusable, and a
\* call that finds the slot not reusable starts a fresh exchange
C19_FailedExchangeFrame ==
    /\ [][ExchangeFailsHere =>
            /\ token_cache' = token_cache
            /\ exchanges' = exchanges
            /\ ~(token_cache'.access_token # NoToken
                 /\ clock' < token_cache'.exp - 60)]_vars
    /\ [][(/\ pc = "idle" /\ pc' # "idle" /\ creds
           /\ ~(token_cache.access_token # NoToken
                /\ clock < token_cache.exp - 60)) =>
            /\ pc' = "post"
            /\ exchanges' = exchanges + 1
            /\ token_cache' = token_cache]_vars
\* the second exchange of the run has failed and the pair of the first is
\* still in the slot
C19_Witness ==
    /\ pc = "public" /\ tokenOutcome = "raised" /\ exchanges = 2
    /\ events \cap {"cred_transport", "cred_status", "cred_nokey"} # {}
    /\ token_cache.access_token = 1
    /\ token_cache.exp > 0

\* C20: when the status fetch of status_cmd fails (transport error,
\* non-success status, no description) the handler goes on with description
\* "Unknown" and ok true, fetches the series and sends the reply built from
\* them; ok is false only for a fetched description without the word
\* Operational, and for every such description
C20_UnknownIsOk ==
    /\ pc # "failed"
    /\ spc \in {"series", "sent"} =>
           /\ statusFetch # "none"
           /\ pc # "idle"
           /\ statusFetch # "ok" => description = <<"Unknown">> /\ ok
           /\ ~ok => statusFetch = "ok"
           /\ statusFetch = "ok" =>
                  (ok <=> \E i \in 1..Len(description) :
                              description[i] = "Operational")
    /\ spc = "sent" =>
           /\ pc = "done" /\ Len(series) = 25
           /\ reply = [kind |-> "photo", ok |-> ok, description |-> description,
                       reports |-> series[25][2]]
\* the status fetch failed and the reply went out with Unknown and ok
C20_Witness ==
    /\ spc = "sent" /\ statusFetch = "transport"
    /\ reply.kind = "photo" /\ reply.ok /\ reply.description = <<"Unknown">>
    /\ reply.reports = 1

====
